---------------------------- MODULE Spec2Model ----------------------------
(***************************************************************************)
(* Model of wpa_supplicant_8_lib/driver_cmd_wext.c: the WEXT driver        *)
(* command dispatcher (wpa_driver_wext_driver_cmd), the combo scan request *)
(* (wpa_driver_wext_combo_scan), the scan timeout scheduling and the two   *)
(* byte-packing routines (CSCAN parameters, PNO setup).                    *)
(*                                                                         *)
(* C strings are sequences of byte values without their terminating NUL;   *)
(* a buffer is the sequence of the bytes written to it, index 0 first.     *)
(***************************************************************************)
EXTENDS Integers, Sequences, FiniteSets, TLC

VARIABLES
    driver_is_started,     \* drv->driver_is_started
    bgscan_enabled,        \* drv->bgscan_enabled
    errors,                \* drv->errors
    scan_complete_events,  \* drv->scan_complete_events
    scanning,              \* wpa_s->scanning
    wpa_state,             \* wpa_s->wpa_state
    conf,                  \* wpa_s->conf: present (not NULL) and its list ssid
    iface_up,              \* IFF_UP of drv->ifname, as set by linux_set_iface_flags
    timeouts,              \* eloop: pending wpa_driver_wext_scan_timeout(drv, ctx), seconds
    op,                    \* the function that ran in the latest step
    pre,                   \* the driver, session and eloop state at its entry
    cmd_in,                \* its cmd argument at entry
    cmd,                   \* the caller's cmd buffer at return
    buf_len,               \* its length argument: buf_len, or params->ssids[0].ssid_len
    buf,                   \* the bytes it wrote to the caller's buf
    ret,                   \* its return value
    trace                  \* its calls out (ioctl, wpa_msg, eloop, ...), in order

vars == <<driver_is_started, bgscan_enabled, errors, scan_complete_events,
          scanning, wpa_state, conf, iface_up, timeouts,
          op, pre, cmd_in, cmd, buf_len, buf, ret, trace>>

----------------------------------------------------------------------------
(* Bytes and C strings *)

Printable ==
    << <<32, " ">>, <<43, "+">>, <<44, ",">>, <<45, "-">>, <<61, "=">>,
       <<48, "0">>, <<49, "1">>, <<50, "2">>, <<51, "3">>, <<52, "4">>,
       <<53, "5">>, <<54, "6">>, <<55, "7">>, <<56, "8">>, <<57, "9">>,
       <<65, "A">>, <<66, "B">>, <<67, "C">>, <<68, "D">>, <<69, "E">>,
       <<70, "F">>, <<71, "G">>, <<72, "H">>, <<73, "I">>, <<74, "J">>,
       <<75, "K">>, <<76, "L">>, <<77, "M">>, <<78, "N">>, <<79, "O">>,
       <<80, "P">>, <<81, "Q">>, <<82, "R">>, <<83, "S">>, <<84, "T">>,
       <<85, "U">>, <<86, "V">>, <<87, "W">>, <<88, "X">>, <<89, "Y">>,
       <<90, "Z">>,
       <<97, "a">>, <<98, "b">>, <<99, "c">>, <<100, "d">>, <<101, "e">>,
       <<102, "f">>, <<103, "g">>, <<104, "h">>, <<105, "i">>, <<106, "j">>,
       <<107, "k">>, <<108, "l">>, <<109, "m">>, <<110, "n">>, <<111, "o">>,
       <<112, "p">>, <<113, "q">>, <<114, "r">>, <<115, "s">>, <<116, "t">>,
       <<117, "u">>, <<118, "v">>, <<119, "w">>, <<120, "x">>, <<121, "y">>,
       <<122, "z">> >>

\* The ASCII code of a character.
Ord(c) == Printable[CHOOSE i \in 1..Len(Printable) : Printable[i][2] = c][1]

\* The C string literal spelled by a tuple of characters.
Str(cs) == [i \in 1..Len(cs) |-> Ord(cs[i])]

NUL == 0

Min(a, b) == IF a < b THEN a ELSE b
Max(a, b) == IF a > b THEN a ELSE b

\* strlen of the C string held in a byte sequence: the bytes before the first NUL.
StrLen(s) ==
    IF \E i \in 1..Len(s) : s[i] = NUL
    THEN (CHOOSE i \in 1..Len(s) : s[i] = NUL /\ \A j \in 1..(i-1) : s[j] # NUL) - 1
    ELSE Len(s)

CStr(s) == SubSeq(s, 1, StrLen(s))

ToLower(b) == IF b >= 65 /\ b <= 90 THEN b + 32 ELSE b

Lower(s) == [i \in 1..Len(s) |-> ToLower(s[i])]

\* os_strcasecmp(a, b) == 0
StrCaseEq(a, b) == Lower(a) = Lower(b)

\* os_strncasecmp(a, b, n) == 0: the comparison stops at n bytes or at a NUL.
StrNCaseEq(a, b, n) ==
    Lower(SubSeq(a, 1, Min(n, Len(a)))) = Lower(SubSeq(b, 1, Min(n, Len(b))))

\* os_strstr(s, t): the 1-based index of the first occurrence of t in s, 0 if none.
StrStr(s, t) ==
    LET hits == {i \in 1..(Len(s) - Len(t) + 1) : SubSeq(s, i, i + Len(t) - 1) = t}
    IN  IF hits = {} THEN 0 ELSE CHOOSE i \in hits : \A j \in hits : i <= j

IsSpace(b) == b = 32 \/ (b >= 9 /\ b <= 13)
IsDigit(b) == b >= 48 /\ b <= 57

RECURSIVE AtoiDigits(_, _)
AtoiDigits(s, acc) ==
    IF s # <<>> /\ IsDigit(Head(s))
    THEN AtoiDigits(Tail(s), acc * 10 + (Head(s) - 48))
    ELSE acc

RECURSIVE SkipSpace(_)
SkipSpace(s) == IF s # <<>> /\ IsSpace(Head(s)) THEN SkipSpace(Tail(s)) ELSE s

\* atoi(s): leading white space, an optional sign, then decimal digits.
Atoi(s) ==
    LET t == SkipSpace(s)
    IN  IF t # <<>> /\ Head(t) = Ord("-") THEN 0 - AtoiDigits(Tail(t), 0)
        ELSE IF t # <<>> /\ Head(t) = Ord("+") THEN AtoiDigits(Tail(t), 0)
        ELSE AtoiDigits(t, 0)

U8(n) == n % 256
U16(n) == n % 65536

\* s + n for a C string s: the string from its n-th byte on.
Skip(s, n) == SubSeq(s, n + 1, Len(s))

\* The bytes of a buffer after writing ws at 0-based offset at (a gap is left
\* uninitialized: Uninit).
Uninit == 0 - 1
WriteAt(b, at, ws) ==
    [i \in 1..Max(Len(b), at + Len(ws)) |->
        IF i > at /\ i <= at + Len(ws) THEN ws[i - at]
        ELSE IF i <= Len(b) THEN b[i] ELSE Uninit]

----------------------------------------------------------------------------
(* Constants of driver_cmd_wext.h, driver_cmd_common.h and the headers of  *)
(* wpa_supplicant and Linux that the file includes.                        *)

IW_ESSID_MAX_SIZE == 32
MAX_DRV_CMD_SIZE == 248
DRV_NUMBER_SEQUENTIAL_ERRORS == 4
RSSI_CMD == Str(<<"R", "S", "S", "I">>)
LINKSPEED_CMD == Str(<<"L", "I", "N", "K", "S", "P", "E", "E", "D">>)

WEXT_NUMBER_SCAN_CHANNELS_FCC == 11
WEXT_NUMBER_SCAN_CHANNELS_ETSI == 13
WEXT_NUMBER_SCAN_CHANNELS_MKK1 == 14

\* "CSCAN S\x01\x00\x00S\x00"
WEXT_CSCAN_HEADER == Str(<<"C", "S", "C", "A", "N", " ", "S">>) \o <<1, 0, 0, Ord("S"), 0>>
WEXT_CSCAN_HEADER_SIZE == 12
WEXT_CSCAN_CHANNEL_SECTION == Ord("C")
WEXT_CSCAN_PASV_DWELL_SECTION == Ord("P")
WEXT_CSCAN_HOME_DWELL_SECTION == Ord("H")
WEXT_CSCAN_TYPE_SECTION == Ord("T")
WEXT_CSCAN_TYPE_PASSIVE == 1
WEXT_CSCAN_PASV_DWELL_TIME_DEF == 250
WEXT_CSCAN_PASV_DWELL_TIME_MAX == 3000
WEXT_CSCAN_HOME_DWELL_TIME == 130

----------------------------------------------------------------------------
(* wpa_driver_wext_set_cscan_params *)

\* Line 153 counting only the channel section.
CscanNoRoomChannelOnly(bp, len) == bp + 2 >= len

\* Line 153 with > for >=.
CscanNoRoomStrict(bp, len) == bp + 12 > len

\* Line 153: no room left for one more channel and the sections that follow.
CscanNoRoom(bp, len) == bp + 12 >= len

\* The loop of lines 152-157: out holds the bp bytes written so far.
RECURSIVE CscanChannelLoop(_, _, _, _)
CscanChannelLoop(out, i, channel, len) ==
    IF i > 0 /\ ~CscanNoRoom(Len(out), len)
    THEN CscanChannelLoop(out \o <<WEXT_CSCAN_CHANNEL_SECTION, channel>>, i - 1, channel, len)
    ELSE out

\* The result of wpa_driver_wext_set_cscan_params(buf, len, c): the bytes written
\* to buf from index 0 (out), the value returned (bp) and c as the call leaves it.
CscanParams(len, c) ==
    LET pasv_ptr == StrStr(c, Str(<<",", "T", "I", "M", "E", "=">>))
        parsed == IF pasv_ptr # 0 THEN U16(Atoi(Skip(c, pasv_ptr + 5)))
                  ELSE WEXT_CSCAN_PASV_DWELL_TIME_DEF
        dwell0 == IF parsed = 0 THEN WEXT_CSCAN_PASV_DWELL_TIME_DEF ELSE parsed
        c1 == IF pasv_ptr # 0 THEN SubSeq(c, 1, pasv_ptr - 1) ELSE c
        channel == U8(Atoi(Skip(c1, 5)))
        head == SubSeq(WEXT_CSCAN_HEADER, 1, WEXT_CSCAN_HEADER_SIZE)
                    \o <<WEXT_CSCAN_CHANNEL_SECTION, channel>>
        chans == IF channel # 0
                 THEN CscanChannelLoop(head, (dwell0 - 1) \div WEXT_CSCAN_PASV_DWELL_TIME_DEF,
                                       channel, len)
                 ELSE head
        pasv_dwell == IF channel = 0 /\ dwell0 > WEXT_CSCAN_PASV_DWELL_TIME_MAX
                      THEN WEXT_CSCAN_PASV_DWELL_TIME_MAX ELSE dwell0
        pasv == IF channel # 0
                THEN <<WEXT_CSCAN_PASV_DWELL_SECTION,
                       U8(WEXT_CSCAN_PASV_DWELL_TIME_DEF),
                       U8(WEXT_CSCAN_PASV_DWELL_TIME_DEF \div 256)>>
                ELSE <<WEXT_CSCAN_PASV_DWELL_SECTION,
                       U8(pasv_dwell), U8(pasv_dwell \div 256)>>
        home == <<WEXT_CSCAN_HOME_DWELL_SECTION,
                  U8(WEXT_CSCAN_HOME_DWELL_TIME), U8(WEXT_CSCAN_HOME_DWELL_TIME \div 256)>>
        type == <<WEXT_CSCAN_TYPE_SECTION, WEXT_CSCAN_TYPE_PASSIVE>>
        out == chans \o pasv \o home \o type
    IN  [out |-> out, bp |-> Len(out), cmd |-> c1]

----------------------------------------------------------------------------
(* wpa_driver_get_country_code *)

\* Lines 188-191 with the two counts exchanged.
wpa_driver_get_country_code_exchanged(channels) ==
    IF channels = WEXT_NUMBER_SCAN_CHANNELS_MKK1 THEN Str(<<"E", "U">>)
    ELSE IF channels = WEXT_NUMBER_SCAN_CHANNELS_ETSI THEN Str(<<"J", "P">>)
    ELSE Str(<<"U", "S">>)

wpa_driver_get_country_code(channels) ==
    IF channels = WEXT_NUMBER_SCAN_CHANNELS_ETSI THEN Str(<<"E", "U">>)
    ELSE IF channels = WEXT_NUMBER_SCAN_CHANNELS_MKK1 THEN Str(<<"J", "P">>)
    ELSE Str(<<"U", "S">>)

----------------------------------------------------------------------------
(* wpa_driver_set_backgroundscan_params: the PNO setup buffer *)

WEXT_PNOSETUP_HEADER == Str(<<"P", "N", "O", "S", "E", "T", "U", "P", " ">>)
WEXT_PNOSETUP_HEADER_SIZE == 9
WEXT_PNO_TLV_PREFIX == Ord("S")
WEXT_PNO_TLV_VERSION == Ord("1")
WEXT_PNO_TLV_SUBVERSION == Ord("2")
WEXT_PNO_TLV_RESERVED == Ord("0")
WEXT_PNO_VERSION_SIZE == 4
WEXT_PNO_AMOUNT == 16
WEXT_PNO_SSID_SECTION == Ord("S")
WEXT_PNO_SSID_HEADER_SIZE == 2
WEXT_PNO_SCAN_INTERVAL_SECTION == Ord("T")
WEXT_PNO_SCAN_INTERVAL_LENGTH == 2
WEXT_PNO_SCAN_INTERVAL == 30
WEXT_PNO_REPEAT_SECTION == Ord("R")
WEXT_PNO_REPEAT_LENGTH == 1
WEXT_PNO_REPEAT == 4
WEXT_PNO_MAX_REPEAT_SECTION == Ord("M")
WEXT_PNO_MAX_REPEAT_LENGTH == 1
WEXT_PNO_MAX_REPEAT == 3
WEXT_PNO_NONSSID_SECTIONS_SIZE ==
    (1 + WEXT_PNO_SCAN_INTERVAL_LENGTH) + (1 + WEXT_PNO_REPEAT_LENGTH)
        + (1 + WEXT_PNO_MAX_REPEAT_LENGTH)
WEXT_PNO_MAX_COMMAND_SIZE ==
    WEXT_PNOSETUP_HEADER_SIZE + WEXT_PNO_VERSION_SIZE
        + WEXT_PNO_AMOUNT * (WEXT_PNO_SSID_HEADER_SIZE + IW_ESSID_MAX_SIZE)
        + WEXT_PNO_NONSSID_SECTIONS_SIZE + 1

HexDigit(d) == IF d < 10 THEN 48 + d ELSE 87 + d

RECURSIVE HexDigits(_)
HexDigits(n) == IF n < 16 THEN <<HexDigit(n)>> ELSE HexDigits(n \div 16) \o <<HexDigit(n % 16)>>

\* The bytes os_snprintf(dst, size, "%x", n) stores at dst: at most size - 1
\* digits and the terminating NUL.
SnprintfHex(size, n) ==
    IF size = 0 THEN <<>>
    ELSE SubSeq(HexDigits(n), 1, Min(size - 1, Len(HexDigits(n)))) \o <<NUL>>

\* Line 228 counting only the SSID section.
PnoNoRoomSsidOnly(bp) ==
    bp + WEXT_PNO_SSID_HEADER_SIZE + IW_ESSID_MAX_SIZE >= WEXT_PNO_MAX_COMMAND_SIZE

\* Line 228: no room left for one more SSID, the other sections and the NUL.
PnoNoRoom(bp) ==
    bp + WEXT_PNO_SSID_HEADER_SIZE + IW_ESSID_MAX_SIZE + WEXT_PNO_NONSSID_SECTIONS_SIZE + 1
        >= WEXT_PNO_MAX_COMMAND_SIZE

\* Line 230 without the test of disabled.
PnoEligibleIgnoringDisabled(e) == e.ssid_len <= IW_ESSID_MAX_SIZE

\* Line 230: the entry is enabled and its SSID is not too long.
PnoEligible(e) == (~e.disabled) /\ e.ssid_len <= IW_ESSID_MAX_SIZE

\* The loop of lines 226-239: out holds the bp bytes written so far, i counts
\* the SSID sections, ssid_conf is the rest of the list.
RECURSIVE PnoSsidLoop(_, _, _)
PnoSsidLoop(out, i, ssid_conf) ==
    IF i < WEXT_PNO_AMOUNT /\ ssid_conf # <<>>
    THEN IF PnoNoRoom(Len(out)) THEN out
         ELSE IF PnoEligible(Head(ssid_conf))
              THEN PnoSsidLoop(out \o <<WEXT_PNO_SSID_SECTION, U8(Head(ssid_conf).ssid_len)>>
                                   \o SubSeq(Head(ssid_conf).ssid, 1, Head(ssid_conf).ssid_len),
                               i + 1, Tail(ssid_conf))
              ELSE PnoSsidLoop(out, i, Tail(ssid_conf))
    ELSE out

\* Lines 219-251: the bytes written to the local buf (out) and the final bp.
PnoParams(ssid_conf) ==
    LET b0 == SubSeq(WEXT_PNOSETUP_HEADER, 1, WEXT_PNOSETUP_HEADER_SIZE)
                 \o <<WEXT_PNO_TLV_PREFIX, WEXT_PNO_TLV_VERSION,
                      WEXT_PNO_TLV_SUBVERSION, WEXT_PNO_TLV_RESERVED>>
        b1 == PnoSsidLoop(b0, 0, ssid_conf)
        bp1 == Len(b1)
        b2 == WriteAt(b1, bp1, <<WEXT_PNO_SCAN_INTERVAL_SECTION>>)
        b3 == WriteAt(b2, bp1 + 1,
                      SnprintfHex(WEXT_PNO_SCAN_INTERVAL_LENGTH + 1, WEXT_PNO_SCAN_INTERVAL))
        bp2 == bp1 + 1 + WEXT_PNO_SCAN_INTERVAL_LENGTH
        b4 == WriteAt(b3, bp2, <<WEXT_PNO_REPEAT_SECTION>>)
        b5 == WriteAt(b4, bp2 + 1, SnprintfHex(WEXT_PNO_REPEAT_LENGTH + 1, WEXT_PNO_REPEAT))
        bp3 == bp2 + 1 + WEXT_PNO_REPEAT_LENGTH
        b6 == WriteAt(b5, bp3, <<WEXT_PNO_MAX_REPEAT_SECTION>>)
        b7 == WriteAt(b6, bp3 + 1,
                      SnprintfHex(WEXT_PNO_MAX_REPEAT_LENGTH + 1, WEXT_PNO_MAX_REPEAT))
        bp4 == bp3 + 1 + WEXT_PNO_MAX_REPEAT_LENGTH + 1
    IN  [out |-> b7, bp |-> bp4]

\* A call out of the driver code, as recorded in trace.
Ev(e, data, n, r) == [e |-> e, data |-> data, n |-> n, r |-> r]
IoctlEv(req, data, length, r) == Ev(req, data, length, r)
HangedEv == Ev("wpa_msg DRIVER-STATE HANGED", <<>>, 0, 0)

\* Lines 263 and 343 comparing with >= instead of >.
ErrorPolicyOffByOne(e, r) ==
    IF r < 0
    THEN IF e + 1 >= DRV_NUMBER_SEQUENTIAL_ERRORS
         THEN [errors |-> 0, trace |-> <<HangedEv>>]
         ELSE [errors |-> e + 1, trace |-> <<>>]
    ELSE [errors |-> 0, trace |-> <<>>]

\* Lines 260-269 and 340-349: the error counter and the events after an ioctl
\* that returned r.
ErrorPolicy(e, r) ==
    IF r < 0
    THEN IF e + 1 > DRV_NUMBER_SEQUENTIAL_ERRORS
         THEN [errors |-> 0, trace |-> <<HangedEv>>]
         ELSE [errors |-> e + 1, trace |-> <<>>]
    ELSE [errors |-> 0, trace |-> <<>>]

\* wpa_driver_set_backgroundscan_params(priv) with drv->errors = e and
\* wpa_s->conf = cf (cf.present: not NULL), its ioctl returning r (drv and drv->ctx are never NULL
\* here: the dispatcher has dereferenced both).
SetBackgroundscanParams(e, cf, r) ==
    IF ~cf.present
    THEN [ret |-> 0 - 1, errors |-> e, trace |-> <<>>]
    ELSE LET p == PnoParams(cf.ssid)
             pol == ErrorPolicy(e, r)
         IN  [ret |-> r, errors |-> pol.errors,
              trace |-> <<IoctlEv("SIOCSIWPRIV", p.out, p.bp, r)>> \o pol.trace]

----------------------------------------------------------------------------
(* wpa_driver_wext_set_scan_timeout and the eloop *)

\* Line 59 (and 117) left out: nothing is cancelled.
EloopCancelNothing(ts) == ts

\* eloop_cancel_timeout(wpa_driver_wext_scan_timeout, drv, drv->ctx): every
\* pending timeout of that handler and context is removed.
EloopCancel(ts) == <<>>

\* eloop_register_timeout(secs, 0, wpa_driver_wext_scan_timeout, drv, drv->ctx)
EloopRegister(ts, secs) == Append(ts, secs)

\* Lines 45-56 and 106-114.
ScanTimeoutSecs(sce) == IF sce THEN 30 ELSE 10

\* Line 365 left out: no timeout is cancelled or registered.
SetScanTimeoutSkipped(ts, sce) == [timeouts |-> ts, trace |-> <<>>]

\* Lines 59-61 and 117-119: the pending timeouts and the calls made.
SetScanTimeout(ts, sce) ==
    [timeouts |-> EloopRegister(EloopCancel(ts), ScanTimeoutSecs(sce)),
     trace |-> <<Ev("eloop_cancel_timeout", <<>>, 0, 0),
                 Ev("eloop_register_timeout", <<>>, ScanTimeoutSecs(sce), 0)>>]

----------------------------------------------------------------------------
(* wpa_driver_wext_driver_cmd *)

\* enum wpa_states
WPA_DISCONNECTED == 0
WPA_INTERFACE_DISABLED == 1
WPA_INACTIVE == 2
WPA_SCANNING == 3
WPA_AUTHENTICATING == 4
WPA_ASSOCIATING == 5
WPA_ASSOCIATED == 6
WPA_4WAY_HANDSHAKE == 7
WPA_GROUP_HANDSHAKE == 8
WPA_COMPLETED == 9
WpaStates == WPA_DISCONNECTED..WPA_COMPLETED

CMD_START == Str(<<"S", "T", "A", "R", "T">>)
CMD_STOP == Str(<<"S", "T", "O", "P">>)
CMD_RELOAD == Str(<<"R", "E", "L", "O", "A", "D">>)
CMD_RSSI_APPROX == Str(<<"R", "S", "S", "I", "-", "A", "P", "P", "R", "O", "X">>)
CMD_SCAN_CHANNELS == Str(<<"S", "C", "A", "N", "-", "C", "H", "A", "N", "N", "E", "L", "S">>)
CMD_BGSCAN_START == Str(<<"B", "G", "S", "C", "A", "N", "-", "S", "T", "A", "R", "T">>)
CMD_BGSCAN_STOP == Str(<<"B", "G", "S", "C", "A", "N", "-", "S", "T", "O", "P">>)
CMD_PNOFORCE_1 == Str(<<"P", "N", "O", "F", "O", "R", "C", "E", " ", "1">>)
CMD_PNOFORCE_0 == Str(<<"P", "N", "O", "F", "O", "R", "C", "E", " ", "0">>)
CMD_COUNTRY == Str(<<"C", "O", "U", "N", "T", "R", "Y", " ">>)
CMD_CSCAN == Str(<<"C", "S", "C", "A", "N">>)
CMD_MACADDR == Str(<<"M", "A", "C", "A", "D", "D", "R">>)
CMD_GETPOWER == Str(<<"G", "E", "T", "P", "O", "W", "E", "R">>)
CMD_GETBAND == Str(<<"G", "E", "T", "B", "A", "N", "D">>)

\* os_strncpy(dst, src, MAX_DRV_CMD_SIZE) and os_snprintf(dst, MAX_DRV_CMD_SIZE, ...):
\* the C string left in dst.
StrNCpy(src, n) == SubSeq(src, 1, Min(n, Len(src)))
SnprintfStr(src, n) == SubSeq(src, 1, Min(n - 1, Len(src)))

\* Line 283 comparing only the first five bytes.
NotInitializedPrefix(started, c) == (~started) /\ ~StrNCaseEq(c, CMD_START, 5)

\* Line 283.
NotInitialized(started, c) == (~started) /\ ~StrCaseEq(c, CMD_START)

\* Lines 321-322 without the test of wpa_s->scanning.
CscanAllowedIgnoringScan(scan, state) ==
    state <= WPA_SCANNING \/ state >= WPA_COMPLETED

\* Lines 321-322 with the lower range one state too wide.
CscanAllowedWideState(scan, state) ==
    (~scan) /\ (state <= WPA_AUTHENTICATING \/ state >= WPA_COMPLETED)

\* Lines 321-322.
CscanAllowed(scan, state) ==
    (~scan) /\ (state <= WPA_SCANNING \/ state >= WPA_COMPLETED)

\* Line 338 left out: the ioctl's return is kept.
IoctlResultKept(r) == r

\* Line 338 left out for a failed ioctl: the failure is reported as -1.
IoctlResultFailureKept(r) == IF r < 0 THEN 0 - 1 ELSE 0

\* Line 338: the value of ret after the ioctl returned r.
IoctlResult(r) == 0

\* The state of the driver, the session, the interface and the eloop.
Snap ==
    [started |-> driver_is_started, bgscan |-> bgscan_enabled, errors |-> errors,
     sce |-> scan_complete_events, scanning |-> scanning, wpa_state |-> wpa_state,
     conf |-> conf, iface_up |-> iface_up, timeouts |-> timeouts]

\* What a call leaves: the state s, the caller's cmd and buf, the value
\* returned and the calls made.
Result(s, c, b, r, t) == [s |-> s, cmd |-> c, buf |-> b, ret |-> r, trace |-> t]

\* linux_set_iface_flags(drv->ioctl_sock, drv->ifname, dev_up): IFF_UP as
\* requested of the kernel.
SetIfaceFlags(up, dev_up) == dev_up = 1
IfaceEv(dev_up) == Ev("linux_set_iface_flags", <<>>, dev_up, 0)

\* Line 304 with the comparison turned round.
BgscanSetupFailedWrongSign(r) == r > 0

\* Line 304.
BgscanSetupFailed(r) == r < 0

\* Lines 288-312: the command rewriting. done: the function returns here.
DriverCmdRewrite(s, c, pno_r) ==
    IF StrCaseEq(c, CMD_RSSI_APPROX)
    THEN [done |-> FALSE, r |-> Result(s, StrNCpy(RSSI_CMD, MAX_DRV_CMD_SIZE), <<>>, 0, <<>>)]
    ELSE IF StrNCaseEq(c, CMD_SCAN_CHANNELS, 13)
    THEN [done |-> FALSE,
          r |-> Result(s, SnprintfStr(CMD_COUNTRY \o wpa_driver_get_country_code(Atoi(Skip(c, 13))),
                                      MAX_DRV_CMD_SIZE), <<>>, 0, <<>>)]
    ELSE IF StrCaseEq(c, CMD_STOP)
    THEN [done |-> FALSE,
          r |-> Result([s EXCEPT !.iface_up = SetIfaceFlags(s.iface_up, 0)],
                       c, <<>>, 0, <<IfaceEv(0)>>)]
    ELSE IF StrCaseEq(c, CMD_RELOAD)
    THEN [done |-> TRUE, r |-> Result(s, c, <<>>, 0, <<HangedEv>>)]
    ELSE IF StrCaseEq(c, CMD_BGSCAN_START)
    THEN LET bg == SetBackgroundscanParams(s.errors, s.conf, pno_r)
         IN  IF BgscanSetupFailed(bg.ret)
             THEN [done |-> TRUE,
                   r |-> Result([s EXCEPT !.errors = bg.errors], c, <<>>, bg.ret, bg.trace)]
             ELSE [done |-> FALSE,
                   r |-> Result([s EXCEPT !.errors = bg.errors, !.bgscan = TRUE],
                                StrNCpy(CMD_PNOFORCE_1, MAX_DRV_CMD_SIZE), <<>>,
                                bg.ret, bg.trace)]
    ELSE IF StrCaseEq(c, CMD_BGSCAN_STOP)
    THEN [done |-> FALSE,
          r |-> Result([s EXCEPT !.bgscan = FALSE],
                       StrNCpy(CMD_PNOFORCE_0, MAX_DRV_CMD_SIZE), <<>>, 0, <<>>)]
    ELSE [done |-> FALSE, r |-> Result(s, c, <<>>, 0, <<>>)]

\* Lines 314-328: the copy of the command to buf and the CSCAN encoding.
\* length: iwr.u.data.length.
DriverCmdPayload(x, len) ==
    LET b1 == WriteAt(x.buf, 0, x.cmd \o <<NUL>>)
    IN  IF StrNCaseEq(x.cmd, CMD_CSCAN, 5)
        THEN IF CscanAllowed(x.s.scanning, x.s.wpa_state)
             THEN LET enc == CscanParams(len, x.cmd)
                  IN  [done |-> FALSE, length |-> enc.bp,
                       r |-> [x EXCEPT !.buf = WriteAt(b1, 0, enc.out), !.cmd = enc.cmd]]
             ELSE [done |-> TRUE, length |-> len, r |-> [x EXCEPT !.buf = b1]]
        ELSE [done |-> FALSE, length |-> len, r |-> [x EXCEPT !.buf = b1]]

\* The private command's answer: a driver that succeeds writes reply (a C
\* string, at most length bytes with its NUL) to the buffer.
DriverReply(b, length, r, reply) ==
    IF r >= 0 /\ reply # <<>> /\ Len(reply) + 1 <= length
    THEN WriteAt(b, 0, reply \o <<NUL>>)
    ELSE b

\* Lines 350-367: what follows an ioctl taken as successful.
DriverCmdSuccess(x) ==
    IF StrCaseEq(x.cmd, RSSI_CMD) \/ StrCaseEq(x.cmd, LINKSPEED_CMD)
       \/ StrCaseEq(x.cmd, CMD_MACADDR) \/ StrCaseEq(x.cmd, CMD_GETPOWER)
       \/ StrCaseEq(x.cmd, CMD_GETBAND)
    THEN [x EXCEPT !.ret = StrLen(x.buf)]
    ELSE IF StrCaseEq(x.cmd, CMD_START)
    THEN [x EXCEPT !.s.started = TRUE,
                   !.s.iface_up = SetIfaceFlags(x.s.iface_up, 1),
                   !.trace = x.trace \o <<IfaceEv(1)>>]
    ELSE IF StrCaseEq(x.cmd, CMD_STOP)
    THEN [x EXCEPT !.s.started = FALSE]
    ELSE IF StrNCaseEq(x.cmd, CMD_CSCAN, 5)
    THEN LET t == SetScanTimeout(x.s.timeouts, x.s.sce)
         IN  [x EXCEPT !.s.timeouts = t.timeouts, !.s.scanning = TRUE,
                       !.trace = x.trace \o t.trace
                                   \o <<Ev("wpa_supplicant_notify_scanning", <<>>, 1, 0)>>]
    ELSE x

\* Lines 329-370: the ioctl, returning priv_r, and what follows it.
DriverCmdIoctl(x, length, priv_r, reply) ==
    LET b == DriverReply(x.buf, length, priv_r, reply)
        ret1 == IoctlResult(priv_r)
        pol == ErrorPolicy(x.s.errors, ret1)
        y == [x EXCEPT !.buf = b, !.s.errors = pol.errors, !.ret = ret1,
                       !.trace = x.trace \o <<IoctlEv("SIOCSIWPRIV", x.buf, length, priv_r)>>
                                   \o pol.trace]
    IN  IF ret1 < 0 THEN y ELSE DriverCmdSuccess([y EXCEPT !.ret = 0])

\* Lines 361-362 left out: STOP leaves the started flag as it was.
DriverCmdFromPayloadStopKept(pl, priv_r, reply) ==
    IF pl.done THEN pl.r
    ELSE [DriverCmdIoctl(pl.r, pl.length, priv_r, reply)
             EXCEPT !.s.started = IF StrCaseEq(pl.r.cmd, CMD_STOP) THEN pl.r.s.started ELSE @]

\* Lines 329-370 after the payload pl of lines 314-328, which returns at line
\* 326 when the CSCAN is not allowed.
DriverCmdFromPayload(pl, priv_r, reply) ==
    IF pl.done THEN pl.r ELSE DriverCmdIoctl(pl.r, pl.length, priv_r, reply)

\* Line 301 left out: RELOAD goes on to the ioctl.
DriverCmdFromRewriteReloadGoesOn(rw, len, priv_r, reply) ==
    IF rw.done /\ rw.r.ret < 0 THEN rw.r
    ELSE DriverCmdFromPayload(DriverCmdPayload(rw.r, len), priv_r, reply)

\* Lines 314-370 after the rewriting rw of lines 288-312, which returns at
\* lines 301 and 306.
DriverCmdFromRewrite(rw, len, priv_r, reply) ==
    IF rw.done THEN rw.r
    ELSE DriverCmdFromPayload(DriverCmdPayload(rw.r, len), priv_r, reply)

\* wpa_driver_wext_driver_cmd(priv, c, buf, len) in state s.
DriverCmdResult(s, c, len, pno_r, priv_r, reply) ==
    IF NotInitialized(s.started, c)
    THEN Result(s, c, <<>>, 0 - 1, <<>>)
    ELSE DriverCmdFromRewrite(DriverCmdRewrite(s, c, pno_r), len, priv_r, reply)

----------------------------------------------------------------------------
(* wpa_driver_wext_combo_scan *)

\* Line 79 with >= for >.
SsidTooLongInclusive(ssid_len) == ssid_len >= IW_ESSID_MAX_SIZE

\* Line 79.
SsidTooLong(ssid_len) == ssid_len > IW_ESSID_MAX_SIZE

\* wpa_driver_wext_combo_scan(priv, params) in state s, params->ssids[0] being
\* ssid (has_ssid: not NULL) of ssid_len bytes, the ioctl returning scan_r.
ComboScanResult(s, has_ssid, ssid_len, scan_r) ==
    IF SsidTooLong(ssid_len)
    THEN Result(s, <<>>, <<>>, 0 - 1, <<>>)
    ELSE LET this_essid == has_ssid /\ ssid_len # 0
             t == SetScanTimeout(s.timeouts, s.sce)
         IN  Result([s EXCEPT !.timeouts = t.timeouts], <<>>, <<>>,
                    IF scan_r < 0 THEN 0 - 1 ELSE 0,
                    <<IoctlEv("SIOCSIWSCAN", <<>>, IF this_essid THEN ssid_len ELSE 0, scan_r)>>
                        \o t.trace)

----------------------------------------------------------------------------
(* The state machine *)

\* Bounds of the model.
MaxBufLen == 64
MaxRun == 8

Entry(disabled, ssid_len) ==
    [disabled |-> disabled, ssid_len |-> ssid_len, ssid |-> [i \in 1..ssid_len |-> 97]]
Run(e, n) == [i \in 1..n |-> e]
Conf(list) == [present |-> TRUE, ssid |-> list]
NoConf == [present |-> FALSE, ssid |-> <<>>]

\* The configurations of the dispatcher's runs.
DispatchConfs ==
    {NoConf, Conf(<<Entry(FALSE, 4), Entry(TRUE, 4), Entry(FALSE, 33)>>)}

\* The commands of the dispatcher's runs.
Commands ==
    {CMD_START, Str(<<"s", "t", "a", "r", "t">>), CMD_START \o Str(<<"X">>),
     CMD_STOP, CMD_RELOAD, CMD_RSSI_APPROX, CMD_MACADDR,
     CMD_SCAN_CHANNELS \o Str(<<"1", "3">>), CMD_SCAN_CHANNELS \o Str(<<"1", "4">>),
     CMD_SCAN_CHANNELS \o Str(<<"1", "1">>),
     CMD_BGSCAN_START, CMD_BGSCAN_STOP,
     CMD_CSCAN \o Str(<<" ", "0">>),
     CMD_CSCAN \o Str(<<" ", "6", ",", "T", "I", "M", "E", "=", "5", "0", "1">>)}

BufLens == {MaxBufLen \div 4, MaxBufLen}
Replies == {<<>>, Str(<<"O", "K">>)}
IoctlReturns == {0, 0 - 1}

Init ==
    /\ driver_is_started \in BOOLEAN
    /\ bgscan_enabled = FALSE
    /\ errors = 0
    /\ scan_complete_events = FALSE
    /\ scanning = FALSE
    /\ wpa_state = WPA_DISCONNECTED
    /\ conf \in DispatchConfs
    /\ iface_up = driver_is_started
    /\ timeouts = <<>>
    /\ op = "idle"
    /\ pre = Snap
    /\ cmd_in = <<>>
    /\ cmd = <<>>
    /\ buf_len = 0
    /\ buf = <<>>
    /\ ret = 0
    /\ trace = <<>>

\* The step of a call that started in the current state with arguments c and
\* len and left x.
Call(name, c, len, x) ==
    /\ op' = name
    /\ pre' = Snap
    /\ cmd_in' = c
    /\ buf_len' = len
    /\ driver_is_started' = x.s.started
    /\ bgscan_enabled' = x.s.bgscan
    /\ errors' = x.s.errors
    /\ scan_complete_events' = x.s.sce
    /\ scanning' = x.s.scanning
    /\ wpa_state' = x.s.wpa_state
    /\ conf' = x.s.conf
    /\ iface_up' = x.s.iface_up
    /\ timeouts' = x.s.timeouts
    /\ cmd' = x.cmd
    /\ buf' = x.buf
    /\ ret' = x.ret
    /\ trace' = x.trace

\* The outcomes of the calls out that a call of the dispatcher with command c
\* can reach: the returns of the PNO setup ioctl and of the private command
\* ioctl, and the driver's reply. An outcome is drawn only for a call the
\* command can make.
Outcomes(c) ==
    {o \in [pno_r : IoctlReturns, priv_r : IoctlReturns, reply : Replies] :
        /\ (o.pno_r < 0 => StrCaseEq(c, CMD_BGSCAN_START))
        /\ (o.reply # <<>> => o.priv_r >= 0)}

\* A call of wpa_driver_wext_driver_cmd from the event loop.
DriverCmd ==
    /\ op = "idle"
    /\ \E c \in Commands, len \in BufLens :
        \E o \in Outcomes(c) :
            Call("driver_cmd", c, len,
                 DriverCmdResult(Snap, c, len, o.pno_r, o.priv_r, o.reply))

\* A call of wpa_driver_wext_combo_scan from the event loop.
ComboScan ==
    /\ op = "idle"
    /\ \E has_ssid \in BOOLEAN, ssid_len \in {0, 1, IW_ESSID_MAX_SIZE, IW_ESSID_MAX_SIZE + 1},
          scan_r \in IoctlReturns :
        Call("combo_scan", <<>>, ssid_len, ComboScanResult(Snap, has_ssid, ssid_len, scan_r))

\* The state s with nothing running: pre is the state itself.
Idle(s) ==
    /\ op' = "idle"
    /\ pre' = s
    /\ cmd_in' = <<>>
    /\ buf_len' = 0
    /\ driver_is_started' = s.started
    /\ bgscan_enabled' = s.bgscan
    /\ errors' = s.errors
    /\ scan_complete_events' = s.sce
    /\ scanning' = s.scanning
    /\ wpa_state' = s.wpa_state
    /\ conf' = s.conf
    /\ iface_up' = s.iface_up
    /\ timeouts' = s.timeouts
    /\ cmd' = <<>>
    /\ buf' = <<>>
    /\ ret' = 0
    /\ trace' = <<>>

\* The call has returned and the caller has taken its results: the event
\* loop is idle again.
Return == op # "idle" /\ Idle(Snap)

\* The supplicant, the kernel driver and the eloop, which this file does not
\* hold: between two calls a step of theirs changes one field the file reads.

\* The supplicant's state machine moves.
SupplicantState ==
    op = "idle" /\ \E st \in WpaStates : st # wpa_state /\ Idle([Snap EXCEPT !.wpa_state = st])

\* The supplicant ends a scan: wpa_supplicant_notify_scanning(wpa_s, 0).
ScanningCleared == op = "idle" /\ scanning /\ Idle([Snap EXCEPT !.scanning = FALSE])

\* The driver delivers an SIOCGIWSCAN event.
ScanCompleteEvent ==
    op = "idle" /\ (~scan_complete_events) /\ Idle([Snap EXCEPT !.sce = TRUE])

\* The eloop runs a pending scan timeout, which is one-shot.
TimeoutFires ==
    op = "idle" /\ timeouts # <<>> /\ Idle([Snap EXCEPT !.timeouts = Tail(timeouts)])

Next ==
    \/ DriverCmd
    \/ ComboScan
    \/ Return
    \/ SupplicantState
    \/ ScanningCleared
    \/ ScanCompleteEvent
    \/ TimeoutFires

Spec == Init /\ [][Next]_vars

----------------------------------------------------------------------------
(* The CSCAN encoder on its own *)

MaxDwell == 5000

RECURSIVE Dec(_)
\* The decimal digits of n, as a command spells them.
Dec(n) == IF n < 10 THEN <<48 + n>> ELSE Dec(n \div 10) \o <<48 + (n % 10)>>

CscanChannels == {0, 1, 6, 255, 256}
\* The dwell times of the commands: around the default, its multiples and the
\* maximum, and around the width of pasv_dwell (u16).
CscanDwells == {0, 1, 250, 251, 501, 3000, 3001, MaxDwell, 65536, 65636}
CscanCommands ==
    {CMD_CSCAN \o Str(<<" ">>) \o Dec(ch) : ch \in CscanChannels}
    \cup {CMD_CSCAN \o Str(<<" ">>) \o Dec(ch) \o Str(<<",", "T", "I", "M", "E", "=">>) \o Dec(d) :
            ch \in CscanChannels, d \in CscanDwells}
    \cup {CMD_CSCAN \o Dec(0), CMD_CSCAN \o Dec(0) \o Str(<<",", "T", "I", "M", "E", "=">>) \o Dec(3001)}

\* A call of wpa_driver_wext_set_cscan_params(buf, len, c).
SetCscanParams ==
    /\ op = "idle"
    /\ \E c \in CscanCommands, len \in 0..MaxBufLen :
        LET enc == CscanParams(len, c)
        IN  Call("set_cscan_params", c, len, Result(Snap, enc.cmd, enc.out, enc.bp, <<>>))

NextCscan == SetCscanParams \/ Return

SpecCscan == Init /\ [][NextCscan]_vars

----------------------------------------------------------------------------
(* The PNO setup on its own *)

\* The entries of a list are told apart by their SSID bytes.
Numbered(list) ==
    [i \in 1..Len(list) |->
        [list[i] EXCEPT !.ssid = [j \in 1..list[i].ssid_len |-> 64 + i]]]

PnoKinds == {Entry(FALSE, 0), Entry(FALSE, 7), Entry(FALSE, IW_ESSID_MAX_SIZE),
             Entry(TRUE, 7), Entry(FALSE, IW_ESSID_MAX_SIZE + 1)}
PnoRunLens == {0, 1, MaxRun}

\* Lists of up to three runs of equal entries.
PnoConfs ==
    {NoConf} \cup
    {Conf(Numbered(Run(k1, n1) \o Run(k2, n2) \o Run(k3, n3))) :
        k1 \in PnoKinds, k2 \in PnoKinds, k3 \in PnoKinds,
        n1 \in PnoRunLens, n2 \in PnoRunLens, n3 \in PnoRunLens}

InitPno ==
    /\ driver_is_started = TRUE
    /\ bgscan_enabled = FALSE
    /\ errors = 0
    /\ scan_complete_events = FALSE
    /\ scanning = FALSE
    /\ wpa_state = WPA_DISCONNECTED
    /\ conf \in PnoConfs
    /\ iface_up = TRUE
    /\ timeouts = <<>>
    /\ op = "idle"
    /\ pre = Snap
    /\ cmd_in = <<>>
    /\ cmd = <<>>
    /\ buf_len = 0
    /\ buf = <<>>
    /\ ret = 0
    /\ trace = <<>>

\* A call of wpa_driver_set_backgroundscan_params(priv).
SetBackgroundscan ==
    /\ op = "idle"
    /\ \E r \in IoctlReturns :
        LET bg == SetBackgroundscanParams(errors, conf, r)
        IN  Call("set_backgroundscan_params", <<>>, 0,
                 Result([Snap EXCEPT !.errors = bg.errors], <<>>, <<>>, bg.ret, bg.trace))

NextPno == SetBackgroundscan \/ Return

SpecPno == InitPno /\ [][NextPno]_vars

----------------------------------------------------------------------------
(* The SCAN-CHANNELS commands on their own *)

\* What follows SCAN-CHANNELS in a command, with the number atoi reads there.
ChannelTexts ==
    << [text |-> <<>>, n |-> 0],
       [text |-> Str(<<"0">>), n |-> 0],
       [text |-> Str(<<"1">>), n |-> 1],
       [text |-> Str(<<"1", "1">>), n |-> 11],
       [text |-> Str(<<"1", "2">>), n |-> 12],
       [text |-> Str(<<"1", "3">>), n |-> 13],
       [text |-> Str(<<"1", "4">>), n |-> 14],
       [text |-> Str(<<"1", "5">>), n |-> 15],
       [text |-> Str(<<"0", "1", "3">>), n |-> 13],
       [text |-> Str(<<" ", "1", "4">>), n |-> 14],
       [text |-> Str(<<"+", "1", "3">>), n |-> 13],
       [text |-> Str(<<"-", "1", "4">>), n |-> 0 - 14],
       [text |-> Str(<<"1", "4", "x">>), n |-> 14],
       [text |-> Str(<<"x", "1", "4">>), n |-> 0],
       [text |-> Str(<<"1", "3", "0">>), n |-> 130],
       [text |-> Str(<<"1", " ", "3">>), n |-> 1],
       [text |-> Str(<<"E", "U">>), n |-> 0] >>

ChannelPrefixes ==
    {CMD_SCAN_CHANNELS, Str(<<"s", "c", "a", "n", "-", "c", "h", "a", "n", "n", "e", "l", "s">>)}

ChannelCommands ==
    {pf \o ChannelTexts[i].text : pf \in ChannelPrefixes, i \in 1..Len(ChannelTexts)}

\* A call of wpa_driver_wext_driver_cmd with a SCAN-CHANNELS command.
ScanChannels ==
    /\ op = "idle"
    /\ \E c \in ChannelCommands, len \in BufLens :
        \E o \in Outcomes(c) :
            Call("driver_cmd", c, len,
                 DriverCmdResult(Snap, c, len, o.pno_r, o.priv_r, o.reply))

NextChannels == ScanChannels \/ Return

SpecChannels == Init /\ [][NextChannels]_vars

----------------------------------------------------------------------------
(* Properties *)

\* The calls of kind e in the latest call's trace, as positions.
Events(e) == {i \in 1..Len(trace) : trace[i].e = e}

IsPnoSetup(ev) ==
    ev.e = "SIOCSIWPRIV" /\ Len(ev.data) >= WEXT_PNOSETUP_HEADER_SIZE
        /\ SubSeq(ev.data, 1, WEXT_PNOSETUP_HEADER_SIZE) = WEXT_PNOSETUP_HEADER

\* The PNO setup ioctls and the private command ioctls of the latest call.
PnoIoctls == {i \in Events("SIOCSIWPRIV") : IsPnoSetup(trace[i])}
CmdIoctls == {i \in Events("SIOCSIWPRIV") : ~IsPnoSetup(trace[i])}
Hanged == Events("wpa_msg DRIVER-STATE HANGED")

IsStart(c) == c \in {CMD_START, Str(<<"s", "t", "a", "r", "t">>)}
IsCscan(c) == Len(c) >= 5 /\ Lower(SubSeq(c, 1, 5)) = Str(<<"c", "s", "c", "a", "n">>)
IsBgscanStart(c) == Lower(c) = Lower(CMD_BGSCAN_START)

\* The driver's flags and counter are as at the call's entry.
DriverStateKept ==
    /\ driver_is_started = pre.started
    /\ bgscan_enabled = pre.bgscan
    /\ errors = pre.errors

\* C1: while the driver is Stopped, a command other than START returns a
\* negative status, makes no call out (no ioctl, no event, no interface flag
\* change) and leaves the started flag, the bgscan flag, the error counter,
\* the command string and the reply buffer as they were.
C1_StoppedRejects ==
    (op = "driver_cmd" /\ ~pre.started /\ ~IsStart(cmd_in)) =>
        /\ ret < 0
        /\ trace = <<>>
        /\ DriverStateKept
        /\ iface_up = pre.iface_up
        /\ cmd = cmd_in
        /\ buf = <<>>

C1_Witness ==
    op = "driver_cmd" /\ ~pre.started /\ cmd_in = CMD_STOP /\ ret = 0 - 1

\* C2: START issued in Stopped state is accepted whatever the private command
\* ioctl returns: the driver is Started, linux_set_iface_flags(.., 1) has been
\* called and the call returns 0; and a command issued in Started state is
\* not rejected: it returns a negative status only as a failed BGSCAN-START.
C2_StartAccepted ==
    /\ (op = "driver_cmd" /\ ~pre.started /\ IsStart(cmd_in)) =>
        /\ driver_is_started
        /\ ret = 0
        /\ \E i \in CmdIoctls : \E j \in Events("linux_set_iface_flags") :
              i < j /\ trace[j].n = 1
        /\ iface_up
    /\ (op = "driver_cmd" /\ pre.started /\ ~IsBgscanStart(cmd_in)) => ret >= 0

C2_Witness ==
    /\ op = "driver_cmd" /\ ~pre.started /\ cmd_in = CMD_START
    /\ \E i \in CmdIoctls : trace[i].r < 0
    /\ driver_is_started

\* C3 as stated: every failed ioctl of a dispatcher command increments the
\* error counter, or, when the increment passes the threshold, resets it to 0
\* with exactly one HANGED event.
C3_EveryFailureCounts ==
    (op = "driver_cmd" /\ \E i \in Events("SIOCSIWPRIV") : trace[i].r < 0) =>
        IF pre.errors + 1 > DRV_NUMBER_SEQUENTIAL_ERRORS
        THEN errors = 0 /\ Cardinality(Hanged) = 1
        ELSE errors = pre.errors + 1 /\ Hanged = {}

\* C3, amended: a failed PNO setup ioctl increments the error counter, or,
\* when the increment passes DRV_NUMBER_SEQUENTIAL_ERRORS (the threshold + 1-th
\* consecutive failure), resets it to 0 with exactly one HANGED event; a
\* successful PNO setup ioctl and every private command ioctl, failed or not,
\* reset the counter to 0 without a HANGED event; a call that makes no ioctl
\* leaves the counter alone.
C3_ErrorCounter ==
    /\ errors \in 0..DRV_NUMBER_SEQUENTIAL_ERRORS
    /\ op = "driver_cmd" =>
        IF CmdIoctls # {}
        THEN errors = 0 /\ Hanged = {} /\ \A i \in PnoIoctls : trace[i].r >= 0
        ELSE IF PnoIoctls # {}
        THEN /\ \A i \in PnoIoctls : trace[i].r < 0
             /\ IF pre.errors + 1 > DRV_NUMBER_SEQUENTIAL_ERRORS
                THEN errors = 0 /\ Cardinality(Hanged) = 1
                ELSE errors = pre.errors + 1 /\ Hanged = {}
        ELSE errors = pre.errors

C3_Witness ==
    /\ op = "driver_cmd" /\ pre.errors = DRV_NUMBER_SEQUENTIAL_ERRORS
    /\ PnoIoctls # {} /\ CmdIoctls = {}
    /\ errors = 0 /\ Cardinality(Hanged) = 1

\* C4: a CSCAN command issued in Started state while the session is scanning
\* returns 0 and makes no call out (no ioctl, no timeout cancelled or
\* scheduled, no scanning notification); the started flag, the bgscan flag
\* and the error counter are as before.
C4_CscanWhileScanning ==
    (op = "driver_cmd" /\ pre.started /\ IsCscan(cmd_in) /\ pre.scanning) =>
        /\ ret = 0
        /\ trace = <<>>
        /\ timeouts = pre.timeouts
        /\ scanning = pre.scanning
        /\ DriverStateKept

C4_Witness ==
    /\ op = "driver_cmd" /\ pre.started /\ IsCscan(cmd_in) /\ pre.scanning
    /\ pre.wpa_state = WPA_COMPLETED /\ pre.timeouts # <<>> /\ ret = 0

\* The supplicant states in which a CSCAN is not acted upon.
BusyStates ==
    {WPA_AUTHENTICATING, WPA_ASSOCIATING, WPA_ASSOCIATED,
     WPA_4WAY_HANDSHAKE, WPA_GROUP_HANDSHAKE}

CscanPermitted == (~pre.scanning) /\ pre.wpa_state \notin BusyStates

\* C5 as stated: a CSCAN command reaches the ioctl only when the session is
\* not scanning and the supplicant state is idle or completed, and in every
\* other case the dispatcher returns success without an ioctl.
C5_CscanGuardAnyState ==
    (op = "driver_cmd" /\ IsCscan(cmd_in)) =>
        /\ (Events("SIOCSIWPRIV") # {} => CscanPermitted)
        /\ ((~CscanPermitted) => ret = 0 /\ Events("SIOCSIWPRIV") = {})

\* C5, amended: in Started state a CSCAN command reaches the ioctl exactly
\* when the session is not scanning and the supplicant state is not an
\* authenticating, associating, associated or handshake state, and in every
\* other case in Started state the dispatcher returns success without an
\* ioctl; in Stopped state it is rejected with a negative status and no ioctl.
C5_CscanGuard ==
    (op = "driver_cmd" /\ IsCscan(cmd_in)) =>
        IF pre.started
        THEN /\ (Events("SIOCSIWPRIV") # {} <=> CscanPermitted)
             /\ ((~CscanPermitted) => ret = 0)
        ELSE ret < 0 /\ Events("SIOCSIWPRIV") = {}

C5_Witness ==
    /\ op = "driver_cmd" /\ IsCscan(cmd_in) /\ pre.started
    /\ ~pre.scanning /\ pre.wpa_state = WPA_GROUP_HANDSHAKE
    /\ ret = 0 /\ trace = <<>>

\* The channel a CSCAN command names.
ChannelOf(c) ==
    LET p == StrStr(c, Str(<<",", "T", "I", "M", "E", "=">>))
    IN  U8(Atoi(Skip(IF p = 0 THEN c ELSE SubSeq(c, 1, p - 1), 5)))

\* b is the CSCAN header, k >= 1 channel sections, then one passive dwell
\* section, one home dwell section (the fixed value) and one scan type
\* section (passive), and nothing else.
CscanWellFormed(b) ==
    \E k \in 1..Len(b) :
        LET t == WEXT_CSCAN_HEADER_SIZE + 2 * k
        IN  /\ Len(b) = t + 8
            /\ SubSeq(b, 1, WEXT_CSCAN_HEADER_SIZE) = WEXT_CSCAN_HEADER
            /\ \A j \in 0..(k - 1) :
                  b[WEXT_CSCAN_HEADER_SIZE + 2 * j + 1] = WEXT_CSCAN_CHANNEL_SECTION
            /\ b[t + 1] = WEXT_CSCAN_PASV_DWELL_SECTION
            /\ b[t + 4] = WEXT_CSCAN_HOME_DWELL_SECTION
            /\ b[t + 5] + 256 * b[t + 6] = WEXT_CSCAN_HOME_DWELL_TIME
            /\ b[t + 7] = WEXT_CSCAN_TYPE_SECTION
            /\ b[t + 8] = WEXT_CSCAN_TYPE_PASSIVE

\* The header, one channel section and the three sections that follow.
CscanMinCapacity == WEXT_CSCAN_HEADER_SIZE + 2 + 8

\* C6 as stated: for every channel > 0, dwell > 0 and capacity, the encoder
\* writes no byte at an index >= the capacity, and its output ends with one
\* passive dwell, one home dwell and one scan type section, in that order.
C6_NoOverflowAnyCapacity ==
    (op = "set_cscan_params" /\ ChannelOf(cmd_in) > 0) =>
        Len(buf) <= buf_len /\ CscanWellFormed(buf)

\* C6, amended: for every channel > 0, dwell > 0 and capacity of at least 22
\* bytes (the header, one channel section and the three sections that follow),
\* the encoder writes no byte at an index >= the capacity; for every capacity
\* its output ends with one passive dwell, one home dwell and one scan type
\* section, in that order, and it returns the number of bytes written.
C6_NoOverflow ==
    (op = "set_cscan_params" /\ ChannelOf(cmd_in) > 0) =>
        /\ (buf_len >= CscanMinCapacity => Len(buf) <= buf_len)
        /\ CscanWellFormed(buf)
        /\ ret = Len(buf)

C6_Witness ==
    /\ op = "set_cscan_params" /\ ChannelOf(cmd_in) > 0
    /\ buf_len = MaxBufLen /\ Len(buf) <= buf_len /\ Len(buf) > buf_len - 12
    /\ Len(buf) > CscanMinCapacity

\* The SSID sections of a PNO setup buffer d from 1-based index p on: the
\* 0-based offset of each and its SSID.
RECURSIVE PnoSsidSections(_, _)
PnoSsidSections(d, p) ==
    IF p + 1 <= Len(d) /\ d[p] = WEXT_PNO_SSID_SECTION /\ p + 1 + d[p + 1] <= Len(d)
    THEN <<[at |-> p - 1, ssid |-> SubSeq(d, p + 2, p + 1 + d[p + 1])]>>
             \o PnoSsidSections(d, p + 2 + d[p + 1])
    ELSE <<>>

PnoSections(d) == PnoSsidSections(d, WEXT_PNOSETUP_HEADER_SIZE + WEXT_PNO_VERSION_SIZE + 1)

\* One SSID section of the largest size, the trailing sections and one byte.
PnoReserve ==
    WEXT_PNO_SSID_HEADER_SIZE + IW_ESSID_MAX_SIZE + WEXT_PNO_NONSSID_SECTIONS_SIZE + 1

\* C7: the PNO setup never writes more bytes than its buffer holds
\* (WEXT_PNO_MAX_COMMAND_SIZE), the trailing sections and the terminating NUL
\* included, and hands the ioctl no greater length; every SSID section it adds
\* starts where one more SSID section of the largest size, the trailing
\* sections and one byte still fit.
C7_PnoFits ==
    op = "set_backgroundscan_params" =>
        \A i \in PnoIoctls :
            /\ Len(trace[i].data) <= WEXT_PNO_MAX_COMMAND_SIZE
            /\ trace[i].n = Len(trace[i].data)
            /\ trace[i].data[Len(trace[i].data)] = NUL
            /\ LET secs == PnoSections(trace[i].data)
               IN  \A j \in 1..Len(secs) :
                       secs[j].at + PnoReserve < WEXT_PNO_MAX_COMMAND_SIZE

\* Sixteen SSIDs of 32 bytes are configured: the check of line 228 stops the
\* loop after fifteen.
C7_Witness ==
    /\ op = "set_backgroundscan_params"
    /\ \E i \in PnoIoctls :
          /\ Len(PnoSections(trace[i].data)) = WEXT_PNO_AMOUNT - 1
          /\ \A j \in 1..(WEXT_PNO_AMOUNT - 1) :
                Len(PnoSections(trace[i].data)[j].ssid) = IW_ESSID_MAX_SIZE
          /\ Len(trace[i].data) + PnoReserve - WEXT_PNO_NONSSID_SECTIONS_SIZE - 1
                >= WEXT_PNO_MAX_COMMAND_SIZE

IsEligibleEntry(e) == (~e.disabled) /\ Len(e.ssid) <= IW_ESSID_MAX_SIZE

\* The SSIDs of the enabled entries of at most 32 bytes, in list order.
EligibleSsids(list) ==
    LET el == SelectSeq(list, IsEligibleEntry) IN [j \in 1..Len(el) |-> el[j].ssid]

SectionSsids(d) == LET secs == PnoSections(d) IN [j \in 1..Len(secs) |-> secs[j].ssid]

\* The offset after the SSID sections of d.
PnoSsidEnd(d) ==
    LET secs == PnoSections(d)
    IN  IF secs = <<>> THEN WEXT_PNOSETUP_HEADER_SIZE + WEXT_PNO_VERSION_SIZE
        ELSE secs[Len(secs)].at + WEXT_PNO_SSID_HEADER_SIZE + Len(secs[Len(secs)].ssid)

PnoSetupFailed == (~pre.conf.present) \/ \E i \in PnoIoctls : trace[i].r < 0

\* C9: BGSCAN-START in Started state. If the PNO setup fails, the dispatcher
\* returns that failure, issues no private command ioctl and leaves the bgscan
\* flag and the command string as they were; if it succeeds, and only then,
\* the command is rewritten to "PNOFORCE 1", the bgscan flag is set and the
\* private command ioctl carries PNOFORCE 1.
C9_BgscanStart ==
    (op = "driver_cmd" /\ pre.started /\ IsBgscanStart(cmd_in)) =>
        IF PnoSetupFailed
        THEN /\ ret < 0
             /\ \A i \in PnoIoctls : ret = trace[i].r
             /\ CmdIoctls = {}
             /\ bgscan_enabled = pre.bgscan
             /\ cmd = cmd_in
        ELSE /\ cmd = CMD_PNOFORCE_1
             /\ bgscan_enabled
             /\ \E i \in PnoIoctls : \E j \in CmdIoctls :
                   i < j /\ CStr(trace[j].data) = CMD_PNOFORCE_1

C9_Witness ==
    /\ op = "driver_cmd" /\ pre.started /\ IsBgscanStart(cmd_in)
    /\ \E i \in PnoIoctls : trace[i].r < 0
    /\ ret < 0 /\ ~bgscan_enabled /\ cmd = CMD_BGSCAN_START

\* The latest call was a scan request: a combo scan with an SSID of at most
\* 32 bytes, or a CSCAN command that reached the ioctl.
ScanRequested ==
    \/ (op = "combo_scan" /\ buf_len <= IW_ESSID_MAX_SIZE)
    \/ (op = "driver_cmd" /\ IsCscan(cmd_in) /\ CmdIoctls # {})

\* C10: a scan request cancels the pending scan timeout before it registers
\* a new one, so at most one scan timeout is ever pending; after a scan
\* request exactly one is, of 30 seconds if the driver delivers scan complete
\* events (as of the request) and of 10 otherwise.
C10_OneScanTimeout ==
    /\ Len(timeouts) <= 1
    /\ ScanRequested =>
        /\ timeouts = <<IF pre.sce THEN 30 ELSE 10>>
        /\ Cardinality(Events("eloop_register_timeout")) = 1
        /\ \E i \in Events("eloop_cancel_timeout") : \E j \in Events("eloop_register_timeout") :
              i < j /\ trace[j].n = timeouts[1]

C10_Witness ==
    op = "combo_scan" /\ pre.timeouts = <<10>> /\ timeouts = <<30>>

\* The calls of a trace without the value the private command ioctl returned.
EventsModuloResult(t) ==
    [i \in 1..Len(t) |->
        IF t[i].e = "SIOCSIWPRIV" /\ ~IsPnoSetup(t[i]) THEN [t[i] EXCEPT !.r = 0] ELSE t[i]]

\* The other outcome of an ioctl that returned r.
OtherResult(r) == IF r < 0 THEN 0 ELSE 0 - 1

\* C11: a call that reaches the private command ioctl returns no negative
\* value, leaves the error counter at 0 and emits no HANGED event; and the
\* same call with the other outcome of that ioctl (the reply buffer left as
\* the driver code filled it in both) ends with the same return value, the
\* same driver, session and eloop state, the same command string and buffer
\* and the same calls out.
C11_IoctlResultOverridden ==
    (op = "driver_cmd" /\ CmdIoctls # {}) =>
        /\ ret >= 0
        /\ errors = 0
        /\ Hanged = {}
        /\ \A j \in CmdIoctls :
              buf = trace[j].data =>
                  LET alt == DriverCmdResult(pre, cmd_in, buf_len, 0,
                                             OtherResult(trace[j].r), <<>>)
                  IN  /\ alt.ret = ret
                      /\ alt.s = Snap
                      /\ alt.cmd = cmd
                      /\ alt.buf = buf
                      /\ EventsModuloResult(alt.trace) = EventsModuloResult(trace)

\* RSSI-APPROX after failed PNO setups, its ioctl failing: the counter is
\* reset and the length of the buffer's string is returned.
C11_Witness ==
    /\ op = "driver_cmd" /\ pre.started /\ pre.errors > 0
    /\ cmd = RSSI_CMD
    /\ \E j \in CmdIoctls : trace[j].r < 0 /\ buf = trace[j].data
    /\ ret = Len(RSSI_CMD) /\ errors = 0

IsStop(c) == Lower(c) = Lower(CMD_STOP)

\* C12: STOP issued in Started state asks for the interface to be brought
\* down before the private command ioctl is sent, and the driver is Stopped
\* when it returns; STOP issued in Stopped state is rejected with no call out;
\* a call in Stopped state of a command other than START is rejected and
\* leaves the driver Stopped, and the driver leaves Stopped state only by a
\* START command.
C12_StopThenRejected ==
    /\ [](/\ (op = "driver_cmd" /\ pre.started /\ IsStop(cmd_in)) =>
                /\ ~driver_is_started
                /\ ~iface_up
                /\ \E i \in Events("linux_set_iface_flags") : \E j \in CmdIoctls :
                      i < j /\ trace[i].n = 0
          /\ (op = "driver_cmd" /\ (~pre.started) /\ IsStop(cmd_in)) =>
                ret < 0 /\ trace = <<>> /\ ~driver_is_started
          /\ (op = "driver_cmd" /\ (~pre.started) /\ ~IsStart(cmd_in)) =>
                ret < 0 /\ ~driver_is_started)
    /\ [][((~driver_is_started) /\ driver_is_started') =>
              (op' = "driver_cmd" /\ IsStart(cmd_in'))]_vars

\* STOP in Started state, its ioctl failing, has left the driver Stopped.
C12_Witness ==
    /\ op = "driver_cmd" /\ pre.started /\ pre.iface_up /\ IsStop(cmd_in)
    /\ ~driver_is_started
    /\ \E j \in CmdIoctls : trace[j].r < 0

IsReload(c) == Lower(c) = Lower(CMD_RELOAD)

\* C13: RELOAD issued in Started state returns 0 having made one call out,
\* the HANGED driver state message: no ioctl, nothing written to the reply
\* buffer, and the started flag, the bgscan flag, the error counter and the
\* command string are as before.
C13_Reload ==
    (op = "driver_cmd" /\ pre.started /\ IsReload(cmd_in)) =>
        /\ ret = 0
        /\ trace = <<HangedEv>>
        /\ buf = <<>>
        /\ cmd = cmd_in
        /\ DriverStateKept

\* RELOAD with background scan enabled and errors counted.
C13_Witness ==
    /\ op = "driver_cmd" /\ pre.started /\ IsReload(cmd_in)
    /\ pre.bgscan /\ pre.errors > 0
    /\ Cardinality(Hanged) = 1 /\ errors = pre.errors

IsScanChannels(c) == Len(c) >= 13 /\ Lower(SubSeq(c, 1, 13)) = Lower(CMD_SCAN_CHANNELS)

\* The number that follows SCAN-CHANNELS in c, by the table of ChannelTexts.
ChannelCountOf(c) ==
    LET i == CHOOSE k \in 1..Len(ChannelTexts) : ChannelTexts[k].text = Skip(c, 13)
    IN  ChannelTexts[i].n

\* The latest call has left "COUNTRY <code>" in the command string and has
\* handed it to the private command ioctl.
RewrittenToCountry(code) ==
    /\ cmd = CMD_COUNTRY \o code
    /\ \E j \in CmdIoctls : CStr(trace[j].data) = CMD_COUNTRY \o code

TimeText == Str(<<",", "T", "I", "M", "E", "=">>)

\* The channel and the dwell time a CSCAN command asks for, as numbers of any
\* size (absent: no ",TIME=" in the command).
RequestedChannel(c) ==
    LET p == StrStr(c, TimeText)
    IN  Atoi(Skip(IF p = 0 THEN c ELSE SubSeq(c, 1, p - 1), 5))

DwellAbsent(c) == StrStr(c, TimeText) = 0
RequestedDwell(c) == IF DwellAbsent(c) THEN 0 ELSE Atoi(Skip(c, StrStr(c, TimeText) + 5))

\* The encoding of a scan of all channels with passive dwell time d: the
\* header, one channel section of channel 0, then the passive dwell, home
\* dwell and scan type sections.
ScanAllEncoding(d) ==
    WEXT_CSCAN_HEADER
        \o <<WEXT_CSCAN_CHANNEL_SECTION, 0>>
        \o <<WEXT_CSCAN_PASV_DWELL_SECTION, d % 256, d \div 256>>
        \o <<WEXT_CSCAN_HOME_DWELL_SECTION,
             WEXT_CSCAN_HOME_DWELL_TIME % 256, WEXT_CSCAN_HOME_DWELL_TIME \div 256>>
        \o <<WEXT_CSCAN_TYPE_SECTION, WEXT_CSCAN_TYPE_PASSIVE>>

\* C15: for a request to scan all channels (channel 0) with any TIME value the
\* encoder emits one channel section of channel 0 and no repetition, and the
\* passive dwell section carries the requested dwell time, at most
\* WEXT_CSCAN_PASV_DWELL_TIME_MAX, or the default when the dwell time is
\* absent or zero.
C15_ScanAllDwell ==
    (op = "set_cscan_params" /\ RequestedChannel(cmd_in) = 0) =>
        buf = ScanAllEncoding(
                  IF DwellAbsent(cmd_in) \/ RequestedDwell(cmd_in) = 0
                  THEN WEXT_CSCAN_PASV_DWELL_TIME_DEF
                  ELSE Min(RequestedDwell(cmd_in), WEXT_CSCAN_PASV_DWELL_TIME_MAX))

\* The encoding of a scan of channel ch with k repetitions: the header, k + 1
\* channel sections, the passive dwell section with the default, the home
\* dwell and the scan type sections.
ChannelEncoding(ch, k) ==
    WEXT_CSCAN_HEADER
        \o [i \in 1..(2 * (k + 1)) |-> IF i % 2 = 1 THEN WEXT_CSCAN_CHANNEL_SECTION ELSE ch]
        \o <<WEXT_CSCAN_PASV_DWELL_SECTION,
             WEXT_CSCAN_PASV_DWELL_TIME_DEF % 256, WEXT_CSCAN_PASV_DWELL_TIME_DEF \div 256>>
        \o <<WEXT_CSCAN_HOME_DWELL_SECTION,
             WEXT_CSCAN_HOME_DWELL_TIME % 256, WEXT_CSCAN_HOME_DWELL_TIME \div 256>>
        \o <<WEXT_CSCAN_TYPE_SECTION, WEXT_CSCAN_TYPE_PASSIVE>>

\* The repetitions in a buffer of the encoder: its channel sections but one.
Repetitions(b) == (Len(b) - WEXT_CSCAN_HEADER_SIZE - 8) \div 2 - 1

\* The offset after the header and k + 1 channel sections.
AfterChannels(k) == WEXT_CSCAN_HEADER_SIZE + 2 * (k + 1)

\* (dwell - 1) / default_dwell for the dwell time d, the default when d is 0.
RepetitionCount(d) ==
    ((IF d = 0 THEN WEXT_CSCAN_PASV_DWELL_TIME_DEF ELSE d) - 1)
        \div WEXT_CSCAN_PASV_DWELL_TIME_DEF

\* C16 as stated, for channels of 8 bits and dwell times of 16: for a
\* non-zero channel the encoder writes the header, a channel section and one
\* more per repetition, (dwell - 1) / default_dwell of them or fewer, fewer
\* only when the twelve bytes the encoder asks for would not fit the capacity
\* left after the sections written; it returns the number of bytes written.
C16_ReducedOnlyWhenNoFit ==
    (op = "set_cscan_params" /\ RequestedChannel(cmd_in) \in 1..255
        /\ RequestedDwell(cmd_in) < 65536) =>
        LET k == Repetitions(buf)
            full == RepetitionCount(RequestedDwell(cmd_in))
        IN  /\ k >= 0 /\ k <= full
            /\ buf = ChannelEncoding(RequestedChannel(cmd_in), k)
            /\ ret = Len(buf)
            /\ k < full => AfterChannels(k) + 12 > buf_len

\* C16, amended: for a channel that is not 0 as an 8-bit value and a capacity
\* of at least 22 bytes (the caller's part, as in C6) the encoder writes the
\* header, a channel section and one more per repetition, then the
\* three sections that follow, and returns the number of bytes written; the
\* repetitions are (dwell - 1) / default_dwell, dwell being the requested
\* time as a 16-bit unsigned value (the default when absent or zero), or
\* fewer: the encoder adds a repetition only while more than 12 bytes of the
\* capacity are left after the sections written (bp + 12 < buf_len), and
\* stops at the first one for which they are not.
C16_Repetitions ==
    (op = "set_cscan_params" /\ RequestedChannel(cmd_in) % 256 # 0
        /\ buf_len >= CscanMinCapacity) =>
        LET k == Repetitions(buf)
            full == RepetitionCount(RequestedDwell(cmd_in) % 65536)
        IN  /\ k >= 0 /\ k <= full
            /\ buf = ChannelEncoding(RequestedChannel(cmd_in) % 256, k)
            /\ ret = Len(buf)
            /\ k < full => AfterChannels(k) + 12 >= buf_len
            /\ k > 0 => AfterChannels(k - 1) + 12 < buf_len

\* Nineteen repetitions asked for, some added and the rest left out because
\* exactly 12 bytes were left.
C16_Witness ==
    /\ op = "set_cscan_params"
    /\ cmd_in = CMD_CSCAN \o Str(<<" ">>) \o Dec(6) \o TimeText \o Dec(MaxDwell)
    /\ Repetitions(buf) > 0
    /\ Repetitions(buf) < RepetitionCount(MaxDwell)
    /\ AfterChannels(Repetitions(buf)) + 12 = buf_len
    /\ ret = Len(buf) /\ Len(buf) <= buf_len

\* The latest call was a CSCAN command that reached the private command ioctl.
CscanIoctl == op = "driver_cmd" /\ IsCscan(cmd_in) /\ CmdIoctls # {}

\* C17: a CSCAN command that reaches the ioctl was issued with the scanning
\* flag clear, and after the ioctl it registers a scan timeout and then marks
\* the session as scanning; a CSCAN issued while the flag is set makes no
\* ioctl and schedules no timeout; and no call of this file clears the flag,
\* so that between two CSCAN ioctls the supplicant has cleared it.
C17_CscanMarksScanning ==
    /\ [](/\ CscanIoctl =>
                /\ ~pre.scanning
                /\ scanning
                /\ Len(timeouts) = 1
                /\ \E j \in CmdIoctls : \E i \in Events("eloop_register_timeout") :
                      \E n \in Events("wpa_supplicant_notify_scanning") :
                          j < i /\ i < n /\ trace[n].n = 1
          /\ (op = "driver_cmd" /\ IsCscan(cmd_in) /\ pre.scanning) =>
                /\ Events("SIOCSIWPRIV") = {}
                /\ Events("eloop_register_timeout") = {}
                /\ timeouts = pre.timeouts)
    /\ [][(scanning /\ ~scanning') => (op = "idle" /\ op' = "idle")]_vars
    /\ [][(op = "idle" /\ op' = "driver_cmd" /\ IsCscan(cmd_in') /\ scanning) =>
              (\A i \in 1..Len(trace') : trace'[i].e # "SIOCSIWPRIV")]_vars

\* A CSCAN has reached the ioctl, which failed, with the flag clear and the
\* timeout of an earlier scan request still pending.
C17_Witness ==
    /\ CscanIoctl /\ pre.started /\ pre.timeouts # <<>> /\ ~pre.scanning
    /\ scanning /\ Len(timeouts) = 1
    /\ \E j \in CmdIoctls : trace[j].r < 0

ScanIoctls == Events("SIOCSIWSCAN")

\* C18: a combo scan with an SSID of more than 32 bytes returns -1 and makes
\* no call out: no set-scan ioctl, no timeout cancelled or registered. With
\* an SSID of at most 32 bytes it makes one set-scan ioctl, then cancels and
\* registers the scan timeout, also when the ioctl failed, and returns -1 if
\* the ioctl failed and 0 if not. The started flag, the bgscan flag and the
\* error counter are as before in both.
C18_ComboScan ==
    op = "combo_scan" =>
        /\ DriverStateKept
        /\ IF buf_len > 32
           THEN ret = 0 - 1 /\ trace = <<>> /\ timeouts = pre.timeouts
           ELSE /\ Cardinality(ScanIoctls) = 1
                /\ \A s \in ScanIoctls :
                      /\ ret = (IF trace[s].r < 0 THEN 0 - 1 ELSE 0)
                      /\ \E i \in Events("eloop_cancel_timeout") :
                            \E j \in Events("eloop_register_timeout") : s < i /\ i < j
                /\ Cardinality(Events("eloop_cancel_timeout")) = 1
                /\ Cardinality(Events("eloop_register_timeout")) = 1
                /\ Len(timeouts) = 1

\* A scan for an SSID of 32 bytes whose ioctl failed: the pending timeout has
\* been replaced and -1 returned.
C18_Witness ==
    /\ op = "combo_scan" /\ buf_len = 32 /\ pre.timeouts # <<>> /\ pre.errors > 0
    /\ \E s \in ScanIoctls : trace[s].r < 0 /\ trace[s].n = 32
    /\ ret = 0 - 1 /\ Len(timeouts) = 1 /\ errors = pre.errors

\* C19: a command issued in Started state leaves no more than buf_len bytes
\* written to the reply buffer, counting the copy of the command string with
\* its terminator and the CSCAN encoding, and hands the private command ioctl
\* a buffer and a length of no more than buf_len bytes.
C19_NoReplyOverflow ==
    (op = "driver_cmd" /\ pre.started) =>
        /\ Len(buf) <= buf_len
        /\ \A j \in CmdIoctls :
              Len(trace[j].data) <= buf_len /\ trace[j].n <= buf_len

=============================================================================
